---- MODULE Spec2Model ----
(***************************************************************************)
(* django-auditlog: the model registry (src/auditlog/registry.py) and the  *)
(* signal receivers (src/auditlog/receivers.py).                           *)
(*                                                                         *)
(* The state is the module-level registry `auditlog` (its _registry dict,  *)
(* its _signals map and its thread-local flags), the framework's table of  *)
(* connected receivers, the model tables and the LogEntry table. A call    *)
(* that touches shared state more than once (the registry, the receiver    *)
(* lists, a table) is taken one access at a time, so that the calls made   *)
(* by two threads interleave.                                              *)
(***************************************************************************)
EXTENDS Integers, Sequences, FiniteSets

\* ---------------------------------------------------------------- bounds
\* Largest primary key of a model table.
MaxPk == 2
\* A call that may write a LogEntry row starts while the table has fewer rows
\* than this.
MaxLog == 1

\* ------------------------------------------------------------ the universe
None == "None"
\* The pk of an instance that has none (instance.pk is None).
NoPk == 0
\* Subclasses of django.db.models.Model, and a class that is not one.
Models == {"Author", "Book"}
NonModels == {"object"}
Classes == Models \cup NonModels
Threads == {"main", "worker"}
Fields == {"name"}
Values == {"a", "b"}
Pks == 1..MaxPk
\* A model instance: its class, its pk (None before the first save) and its
\* field values.
Instances == [cls : Models, pk : Pks \cup {NoPk}, fields : [Fields -> Values]]
\* register(include_fields, exclude_fields, mapping_fields)
Configs == [include_fields : {<<>>, <<"name">>}, exclude_fields : {<<>>}, mapping_fields : {<<>>}]
DefaultConfig == [include_fields |-> <<>>, exclude_fields |-> <<>>, mapping_fields |-> <<>>]
\* __init__(custom=...): no custom signals (None or {}), a receiver replacing
\* the one of post_save, and a fifth signal.
Customs ==
    {<<>>, <<<<"post_save", "log_delete">>>>, <<<<"pre_delete", "log_delete">>>>}
M2MActions == {"pre_add", "post_add", "post_remove"}
\* The instances passed to the receivers that do not compare field values.
Plain == {i \in Instances : \A f \in Fields : i.fields[f] = "a"}
\* The instances saved and deleted: those of one model, registered or not.
Saved == {i \in Instances : i.cls = "Author"}
\* The pk sets m2m_changed passes: none, one and all.
PkSets == {{}, {1}, Pks}
\* The instance whose relation changes, and the through model that sends
\* m2m_changed for it.
Children == {i \in Plain : i.cls = "Book" /\ i.pk = 1}
Through == "Book"
\* Rows stored before the receivers are called: an Author, and no Book.
StoredRows == [m \in Models |-> IF m = "Author" THEN [p \in {1} |-> [f \in Fields |-> "a"]] ELSE <<>>]

VARIABLES
    disable_auditlog,   \* user_settings.get('disable_auditlog', False)
    _registry,          \* AuditlogModelRegistry._registry, a dict from class to
                        \* configuration
    _signals,           \* AuditlogModelRegistry._signals, a dict from signal to
                        \* receiver
    flags,              \* AuditlogModelRegistry.flags, one FlagLocals per thread
    receivers,          \* the signals' receiver lists: (signal, dispatch_uid, sender, receiver)
    db,                 \* the model tables: class -> (pk -> field values)
    log,                \* the LogEntry table, in insertion order
    pc,                 \* per thread, the frame of the call it is in
    last,               \* history: the last call that returned, its arguments
                        \* and its outcome ("running" while a call is under way)
    disabled,           \* history: the threads whose last disable_signals() or
                        \* enable_signals() call was disable_signals()
    disconnected,       \* history: the models that were registered when
                        \* disable_signals(disconnect=True) returned and were
                        \* neither registered again nor reconnected since
    constructed,        \* history: can_create, can_update and can_delete as the
                        \* constructing thread read them right after __init__
    touched             \* history: the threads that have assigned a flag
                        \* (disable_signals, enable_signals, a can_* setter)

vars == <<disable_auditlog, _registry, _signals, flags, receivers, db, log, pc, last,
          disabled, disconnected, constructed, touched>>

\* What no call assigns after construction.
fixed == <<disable_auditlog, _signals, constructed>>
\* The tables.
tables == <<db, log>>

\* ------------------------------------------------------------------ dicts
\* A dict as CPython 3.11 keeps it: the table size (0 for the empty dict
\* literal, then a power of two) and the entry array, in insertion order, in
\* which a deleted entry leaves a hole until the array is rebuilt.
Deleted == "<deleted>"
Hole == <<Deleted, None>>
EmptyDict == [size |-> 0, entries |-> <<>>]

\* The (key, value) pairs of d, in order.
dict_items(d) == SelectSeq(d.entries, LAMBDA e : e[1] # Deleted)

dict_keys(d) == {d.entries[n][1] : n \in {m \in 1..Len(d.entries) : d.entries[m][1] # Deleted}}

\* len(d)
dict_len(d) == Len(dict_items(d))

\* d[k]
dict_get(d, k) == d.entries[CHOOSE n \in 1..Len(d.entries) : d.entries[n][1] = k][2]

\* The entries a table of n slots holds before it is rebuilt.
USABLE_FRACTION(n) == (2 * n) \div 3

\* The least power of two above x, from p on.
RECURSIVE bit_ceiling(_, _)
bit_ceiling(p, x) == IF p > x THEN p ELSE bit_ceiling(2 * p, x)

\* The size of the table built for minsize entries: 2 ^ bit_length of
\* ((minsize | 8) - 1) | 7.
calculate_keysize(minsize) ==
    LET or8 == IF (minsize \div 8) % 2 = 1 THEN minsize ELSE minsize + 8
        m == or8 - 1
    IN  bit_ceiling(1, m - (m % 8) + 7)

\* d[k] = v: a key that is present keeps its place. A new key goes last; when
\* no entry is free the table is rebuilt first, for three times the keys it
\* holds, and the holes go.
dict_set(d, k, v) ==
    IF k \in dict_keys(d)
    THEN [d EXCEPT !.entries =
              [n \in 1..Len(d.entries) |->
                   IF d.entries[n][1] = k THEN <<k, v>> ELSE d.entries[n]]]
    ELSE IF USABLE_FRACTION(d.size) - Len(d.entries) <= 0
    THEN [size |-> calculate_keysize(3 * dict_len(d)),
          entries |-> Append(dict_items(d), <<k, v>>)]
    ELSE [d EXCEPT !.entries = Append(d.entries, <<k, v>>)]

\* del d[k]: the entry becomes a hole.
dict_del(d, k) ==
    [d EXCEPT !.entries =
         [n \in 1..Len(d.entries) |-> IF d.entries[n][1] = k THEN Hole ELSE d.entries[n]]]

\* d.update(other), other given by its items.
RECURSIVE dict_update(_, _)
dict_update(d, other) ==
    IF other = <<>> THEN d
    ELSE dict_update(dict_set(d, other[1][1], other[1][2]), Tail(other))

\* iter(d): the number of keys of the dict when the iteration starts, the
\* position in the entry array, and the number of keys still to come.
dict_iter(d) == [used |-> dict_len(d), pos |-> 0, len |-> dict_len(d)]

\* The position of the first entry after the iterator's that is no hole, 0
\* when there is none.
dict_rest(d, it) ==
    LET ahead == {n \in (it.pos + 1)..Len(d.entries) : d.entries[n][1] # Deleted}
    IN  IF ahead = {} THEN 0 ELSE CHOOSE n \in ahead : \A m \in ahead : n <= m

\* next(it) raises RuntimeError: the dict has not the number of keys it had
\* when the iteration started, or an entry is found after as many keys as the
\* dict had were returned.
dict_next_raises(d, it) ==
    \/ dict_len(d) # it.used
    \/ dict_rest(d, it) # 0 /\ it.len = 0

\* next(it) raises StopIteration.
dict_next_stops(d, it) == dict_len(d) = it.used /\ dict_rest(d, it) = 0

\* The key next(it) returns.
dict_next(d, it) == d.entries[dict_rest(d, it)][1]

\* The iterator after next(it) returned a key.
dict_advance(d, it) == [it EXCEPT !.pos = dict_rest(d, it), !.len = it.len - 1]

\* ------------------------------------------------------------ construction
\* FlagLocals: the class attributes every thread starts from.
FlagLocals(us) ==
    [enable_all |-> us.enable_all, enable_create |-> us.enable_create,
     enable_update |-> us.enable_update, enable_delete |-> us.enable_delete]

\* user_settings = getattr(settings, 'AUDITLOG', {'disable_auditlog': False})
DefaultSettings ==
    [disable_auditlog |-> FALSE, enable_all |-> TRUE, enable_create |-> TRUE,
     enable_update |-> TRUE, enable_delete |-> TRUE]

\* The settings considered: the defaults, and each key overridden alone.
UserSettings ==
    {DefaultSettings,
     [DefaultSettings EXCEPT !.disable_auditlog = TRUE],
     [DefaultSettings EXCEPT !.enable_all = FALSE],
     [DefaultSettings EXCEPT !.enable_create = FALSE],
     [DefaultSettings EXCEPT !.enable_update = FALSE],
     [DefaultSettings EXCEPT !.enable_delete = FALSE]}

\* AuditlogModelRegistry.__init__: the signal map. Nothing is mapped when the
\* settings disable auditlog; otherwise the receivers the arguments select,
\* m2m_changed, and then the entries of `custom`.
init_signals(create, update, delete, custom, disable) ==
    LET s1 == IF create THEN dict_set(EmptyDict, "post_save", "log_create") ELSE EmptyDict
        s2 == IF update THEN dict_set(s1, "pre_save", "log_update") ELSE s1
        s3 == IF delete THEN dict_set(s2, "post_delete", "log_delete") ELSE s2
        s4 == dict_set(s3, "m2m_changed", "log_m2m_changed")
    IN  IF disable THEN EmptyDict ELSE dict_update(s4, custom)

\* AuditlogModelRegistry.__init__: the flags of the constructing thread.
init_flags(create, update, delete) ==
    [enable_all |-> create /\ update /\ delete, enable_create |-> create,
     enable_update |-> update, enable_delete |-> delete]

\* ------------------------------------------------------------------ flags
can_create(t) == flags[t].enable_create /\ flags[t].enable_all
can_update(t) == flags[t].enable_update /\ flags[t].enable_all
can_delete(t) == flags[t].enable_delete /\ flags[t].enable_all

\* can_create, can_update and can_delete as read from the FlagLocals `f`.
read_flags(f) ==
    [can_create |-> f.enable_create /\ f.enable_all,
     can_update |-> f.enable_update /\ f.enable_all,
     can_delete |-> f.enable_delete /\ f.enable_all]

\* ------------------------------------------------------- signal connections
_dispatch_uid(signal, model) == <<"AuditlogModelRegistry", model, signal>>

\* Signal.connect(receiver, sender, dispatch_uid): the lookup key is
\* (dispatch_uid, sender); a key that is already connected is not connected again.
signal_connect(conn, signal, receiver, sender, uid) ==
    IF \E k \in conn : k[1] = signal /\ k[2] = uid /\ k[3] = sender
    THEN conn
    ELSE conn \cup {<<signal, uid, sender, receiver>>}

\* Signal.disconnect(sender, dispatch_uid)
signal_disconnect(conn, signal, sender, uid) ==
    {k \in conn : ~(k[1] = signal /\ k[2] = uid /\ k[3] = sender)}

\* The receivers a signal sent by `sender` reaches: those connected for that
\* sender and those connected for every sender (sender=None).
live_receivers(conn, signal, sender) ==
    {k \in conn : k[1] = signal /\ k[3] \in {sender, None}}

contains(model) == model \in dict_keys(_registry)

get_model_fields(model) ==
    [include_fields |-> dict_get(_registry, model).include_fields,
     exclude_fields |-> dict_get(_registry, model).exclude_fields,
     mapping_fields |-> dict_get(_registry, model).mapping_fields]

\* ------------------------------------------------------------- call frames
\* The absent object (None) passed to model_instance_diff.
NoInstance == [cls |-> None, pk |-> NoPk, fields |-> [f \in Fields |-> None]]

\* The sender and the keyword arguments a signal passes; a receiver reads its
\* own.
Kwargs(sender, instance, created, action, model, pk_set) ==
    [sender |-> sender, instance |-> instance, created |-> created, action |-> action,
     model |-> model, pk_set |-> pk_set]

NoKw == Kwargs(None, NoInstance, FALSE, None, None, {})

NoIter == [used |-> 0, pos |-> 0, len |-> 0]

\* The frame of the call under way in a thread. op: the call. For a call of
\* the registry, cls: the class whose signals the loop of _connect_signals or
\* _disconnect_signals is at (None between two classes); i: the number of
\* signals of cls already handled; it: the iterator of `for cls in
\* self._registry`. For a model event or a receiver called directly, cls: the
\* sender; at: the signal whose receivers are being called, "write" before the
\* table is written, "send" before the signal that follows the write is sent,
\* "call" in a receiver called directly; todo: the receivers the signal has
\* still to call; pending: the LogEntry rows the receiver under way has still
\* to write; kw: the arguments the receivers get. flag, existed, ret, has_pk,
\* changed, wrote: what the call reports when it returns.
Idle ==
    [op |-> "idle", cls |-> None, i |-> 0, it |-> NoIter, flag |-> FALSE,
     existed |-> FALSE, ret |-> None, at |-> None, todo |-> <<>>, pending |-> <<>>,
     kw |-> NoKw, has_pk |-> FALSE, changed |-> FALSE, wrote |-> 0]

\* No thread is inside a call.
Quiet == \A t \in Threads : pc[t] = Idle

\* -------------------------------------------------------------- history
\* The last call that returned. op, thread, cls: the call, the calling thread
\* (for the calls that read or write the flags), the class or sender; has_pk:
\* the instance passed had a pk; flag: the boolean argument (created,
\* disconnect, reconnect, value); existed: a stored row (for unregister, a
\* registry entry) was there before the call; changed: the stored row differed
\* from the instance; wrote: the number of LogEntry rows the call wrote;
\* raised, ret: its exception and return value.
NoCall ==
    [op |-> "init", thread |-> None, cls |-> None, has_pk |-> FALSE, flag |-> FALSE,
     existed |-> FALSE, changed |-> FALSE, wrote |-> 0, raised |-> None, ret |-> None]

\* A call of thread t is under way.
Running(t) == [NoCall EXCEPT !.op = "running", !.thread = t]

RegistryCall(op, cls, existed, raised, ret) ==
    [NoCall EXCEPT !.op = op, !.cls = cls, !.existed = existed, !.raised = raised,
                   !.ret = ret]

FlagCall(op, t, flag) == [NoCall EXCEPT !.op = op, !.thread = t, !.flag = flag]

ReceiverCall(op, t, cls, has_pk, flag, existed, changed, wrote) ==
    [NoCall EXCEPT !.op = op, !.thread = t, !.cls = cls, !.has_pk = has_pk,
                   !.flag = flag, !.existed = existed, !.changed = changed,
                   !.wrote = wrote]

\* ------------------------------------------------------------------ Init
\* auditlog = AuditlogModelRegistry(), constructed by the thread that imports
\* the module; the other threads read the FlagLocals class attributes.
Init ==
    \E us \in UserSettings :
        /\ disable_auditlog = us.disable_auditlog
        /\ _registry = EmptyDict
        /\ _signals = init_signals(TRUE, TRUE, TRUE, <<>>, us.disable_auditlog)
        /\ flags = [t \in Threads |->
                        IF t = "main" THEN init_flags(TRUE, TRUE, TRUE) ELSE FlagLocals(us)]
        /\ receivers = {}
        /\ db = [m \in Models |-> <<>>]
        /\ log = <<>>
        /\ pc = [t \in Threads |-> Idle]
        /\ last = NoCall
        /\ disabled = {}
        /\ disconnected = {}
        /\ constructed = read_flags(init_flags(TRUE, TRUE, TRUE))
        /\ touched = {}

\* The module-level registry under the settings the registry's own code reads:
\* the defaults, and disable_auditlog set.
InitRegistry ==
    \E us \in {u \in UserSettings : FlagLocals(u) = FlagLocals(DefaultSettings)} :
        /\ disable_auditlog = us.disable_auditlog
        /\ _registry = EmptyDict
        /\ _signals = init_signals(TRUE, TRUE, TRUE, <<>>, us.disable_auditlog)
        /\ flags = [t \in Threads |->
                        IF t = "main" THEN init_flags(TRUE, TRUE, TRUE) ELSE FlagLocals(us)]
        /\ receivers = {}
        /\ db = [m \in Models |-> <<>>]
        /\ log = <<>>
        /\ pc = [t \in Threads |-> Idle]
        /\ last = NoCall
        /\ disabled = {}
        /\ disconnected = {}
        /\ constructed = read_flags(init_flags(TRUE, TRUE, TRUE))
        /\ touched = {}

\* ------------------------------------------------------- registry operations
\* The frame of a registry call.
frame(op, cls, it, flag, existed, ret) ==
    [Idle EXCEPT !.op = op, !.cls = cls, !.it = it, !.flag = flag, !.existed = existed,
                 !.ret = ret]

\* registrar(cls) storing the configuration before it tests the class.
register_registrar_tests_late(t, cls, cfg, op, ret) ==
    /\ pc[t] = Idle
    /\ _registry' = dict_set(_registry, cls, cfg)
    /\ IF cls \notin Models
       THEN /\ last' = RegistryCall(op, cls, FALSE, "TypeError", None)
            /\ UNCHANGED <<pc, disconnected>>
       ELSE /\ disconnected' = disconnected \ {cls}
            /\ IF disable_auditlog
               THEN /\ last' = RegistryCall(op, cls, contains(cls), None, ret)
                    /\ UNCHANGED pc
               ELSE /\ pc' = [pc EXCEPT ![t] = frame(op, cls, NoIter, FALSE, contains(cls), ret)]
                    /\ last' = Running(t)
    /\ UNCHANGED receivers

\* registrar(cls) of register(), the body shared by both calling forms, up to
\* the call of _connect_signals: the class is tested and the configuration
\* stored. With auditlog disabled _connect_signals returns at once.
register_registrar(t, cls, cfg, op, ret) ==
    /\ pc[t] = Idle
    /\ IF cls \notin Models
       THEN /\ last' = RegistryCall(op, cls, FALSE, "TypeError", None)
            /\ UNCHANGED <<_registry, pc, disconnected>>
       ELSE /\ _registry' = dict_set(_registry, cls, cfg)
            /\ disconnected' = disconnected \ {cls}
            /\ IF disable_auditlog
               THEN /\ last' = RegistryCall(op, cls, contains(cls), None, ret)
                    /\ UNCHANGED pc
               ELSE /\ pc' = [pc EXCEPT ![t] = frame(op, cls, NoIter, FALSE, contains(cls), ret)]
                    /\ last' = Running(t)
    /\ UNCHANGED receivers

\* auditlog.register(model, include_fields, exclude_fields, mapping_fields),
\* called by thread t
register(t, model, cfg) ==
    /\ register_registrar(t, model, cfg, "register", None)
    /\ UNCHANGED <<fixed, tables, flags, disabled, touched>>

\* @auditlog.register(include_fields, ...) applied to cls by thread t
register_decorator(t, cls, cfg) ==
    /\ register_registrar(t, cls, cfg, "register_decorator", cls)
    /\ UNCHANGED <<fixed, tables, flags, disabled, touched>>

\* One signal.connect of the loop of _connect_signals(cls), in a register or
\* an enable_signals call of thread t. After the last signal register returns
\* and enable_signals goes on to the next class.
_connect_signals(t) ==
    LET f == pc[t]
        sg == dict_items(_signals)[f.i + 1]
    IN  /\ f.op \in {"register", "register_decorator", "enable_signals"}
        /\ f.cls # None
        /\ receivers' = signal_connect(receivers, sg[1], sg[2], f.cls,
                                       _dispatch_uid(sg[1], f.cls))
        /\ IF f.i + 1 < dict_len(_signals)
           THEN /\ pc' = [pc EXCEPT ![t].i = f.i + 1]
                /\ last' = Running(t)
           ELSE IF f.op = "enable_signals"
           THEN /\ pc' = [pc EXCEPT ![t].cls = None, ![t].i = 0]
                /\ last' = Running(t)
           ELSE /\ pc' = [pc EXCEPT ![t] = Idle]
                /\ last' = RegistryCall(f.op, f.cls, f.existed, None, f.ret)
        /\ UNCHANGED <<fixed, tables, _registry, flags, disabled, disconnected, touched>>

\* registrar(cls) of register_m2m(model): the receiver is connected with the
\* enclosing call's `model` as sender and in the dispatch uid, not with cls.
register_m2m_registrar(t, model, cls, op) ==
    /\ pc[t] = Idle
    /\ IF cls \notin Models
       THEN /\ last' = RegistryCall(op, cls, FALSE, "TypeError", None)
            /\ UNCHANGED receivers
       ELSE IF disable_auditlog
       THEN /\ last' = RegistryCall(op, cls, FALSE, None, None)
            /\ UNCHANGED receivers
       ELSE /\ receivers' = signal_connect(receivers, "m2m_changed",
                                           dict_get(_signals, "m2m_changed"), model,
                                           _dispatch_uid("m2m_changed", model))
            /\ last' = RegistryCall(op, cls, FALSE, None, IF model = None THEN cls ELSE None)

\* auditlog.register_m2m(model), called by thread t
register_m2m(t, model) ==
    /\ register_m2m_registrar(t, model, model, "register_m2m")
    /\ UNCHANGED <<fixed, tables, _registry, flags, pc, disabled, disconnected, touched>>

\* @auditlog.register_m2m() applied to cls by thread t
register_m2m_decorator(t, cls) ==
    /\ register_m2m_registrar(t, None, cls, "register_m2m_decorator")
    /\ UNCHANGED <<fixed, tables, _registry, flags, pc, disabled, disconnected, touched>>

\* unregister that leaves the receivers connected.
unregister_keeps_receivers(t, model) ==
    /\ pc[t] = Idle
    /\ IF model \in dict_keys(_registry)
       THEN /\ _registry' = dict_del(_registry, model)
       ELSE UNCHANGED _registry
    /\ last' = RegistryCall("unregister", model, contains(model), None, None)
    /\ UNCHANGED <<fixed, tables, receivers, flags, pc, disabled, disconnected, touched>>

\* unregister that disconnects the model's receivers whether or not the model
\* was in the registry.
unregister_disconnects_absent(t, model) ==
    /\ pc[t] = Idle
    /\ _registry' = dict_del(_registry, model)
    /\ IF disable_auditlog
       THEN /\ last' = RegistryCall("unregister", model, contains(model), None, None)
            /\ UNCHANGED pc
       ELSE /\ pc' = [pc EXCEPT
                         ![t] = frame("unregister", model, NoIter, FALSE, contains(model), None)]
            /\ last' = Running(t)
    /\ UNCHANGED <<fixed, tables, receivers, flags, disabled, disconnected, touched>>

\* auditlog.unregister(model), called by thread t, up to the call of
\* _disconnect_signals: the entry is deleted; a model that has none is left
\* alone (KeyError: pass). With auditlog disabled _disconnect_signals returns
\* at once.
unregister(t, model) ==
    /\ pc[t] = Idle
    /\ IF model \notin dict_keys(_registry)
       THEN /\ last' = RegistryCall("unregister", model, FALSE, None, None)
            /\ UNCHANGED <<_registry, pc>>
       ELSE /\ _registry' = dict_del(_registry, model)
            /\ IF disable_auditlog
               THEN /\ last' = RegistryCall("unregister", model, TRUE, None, None)
                    /\ UNCHANGED pc
               ELSE /\ pc' = [pc EXCEPT
                                 ![t] = frame("unregister", model, NoIter, FALSE, TRUE, None)]
                    /\ last' = Running(t)
    /\ UNCHANGED <<fixed, tables, receivers, flags, disabled, disconnected, touched>>

\* One signal.disconnect of the loop of _disconnect_signals(cls), in an
\* unregister or a disable_signals call of thread t. After the last signal
\* unregister returns and disable_signals goes on to the next class.
_disconnect_signals(t) ==
    LET f == pc[t]
        sg == dict_items(_signals)[f.i + 1]
    IN  /\ f.op \in {"unregister", "disable_signals"}
        /\ f.cls # None
        /\ receivers' = signal_disconnect(receivers, sg[1], f.cls,
                                          _dispatch_uid(sg[1], f.cls))
        /\ IF f.i + 1 < dict_len(_signals)
           THEN /\ pc' = [pc EXCEPT ![t].i = f.i + 1]
                /\ last' = Running(t)
           ELSE IF f.op = "disable_signals"
           THEN /\ pc' = [pc EXCEPT ![t].cls = None, ![t].i = 0]
                /\ last' = Running(t)
           ELSE /\ pc' = [pc EXCEPT ![t] = Idle]
                /\ last' = RegistryCall(f.op, f.cls, f.existed, None, f.ret)
        /\ UNCHANGED <<fixed, tables, _registry, flags, disabled, disconnected, touched>>

\* disable_signals with the flags shared by the threads instead of thread-local.
disable_signals_shared(t, disconnect) ==
    /\ pc[t] = Idle
    /\ flags' = [u \in Threads |-> [flags[u] EXCEPT !.enable_all = FALSE]]
    /\ disabled' = disabled \cup {t}
    /\ touched' = touched \cup {t}
    /\ IF disconnect
       THEN /\ pc' = [pc EXCEPT ![t] = frame("disable_signals", None, dict_iter(_registry),
                                             TRUE, FALSE, None)]
            /\ last' = Running(t)
       ELSE /\ last' = FlagCall("disable_signals", t, FALSE)
            /\ UNCHANGED pc
    /\ UNCHANGED <<fixed, tables, _registry, receivers, disconnected>>

\* auditlog.disable_signals(disconnect), called by thread t: the thread's
\* enable_all is cleared and, with disconnect, the iteration over
\* self._registry starts.
disable_signals(t, disconnect) ==
    /\ pc[t] = Idle
    /\ flags' = [flags EXCEPT ![t].enable_all = FALSE]
    /\ disabled' = disabled \cup {t}
    /\ touched' = touched \cup {t}
    /\ IF disconnect
       THEN /\ pc' = [pc EXCEPT ![t] = frame("disable_signals", None, dict_iter(_registry),
                                             TRUE, FALSE, None)]
            /\ last' = Running(t)
       ELSE /\ last' = FlagCall("disable_signals", t, FALSE)
            /\ UNCHANGED pc
    /\ UNCHANGED <<fixed, tables, _registry, receivers, disconnected>>

\* `for cls in self._registry` of a disable_signals or an enable_signals call
\* of thread t takes the next class: RuntimeError leaves the call, with the
\* classes not reached yet as they were; StopIteration ends it; a class goes
\* to _disconnect_signals or _connect_signals, which returns at once with
\* auditlog disabled.
registry_next(t, op) ==
    LET f == pc[t]
    IN  /\ f.op = op
        /\ f.cls = None
        /\ IF dict_next_raises(_registry, f.it)
           THEN /\ pc' = [pc EXCEPT ![t] = Idle]
                /\ last' = [FlagCall(op, t, f.flag) EXCEPT !.existed = f.existed,
                                                          !.raised = "RuntimeError"]
                /\ UNCHANGED disconnected
           ELSE IF dict_next_stops(_registry, f.it)
           THEN /\ pc' = [pc EXCEPT ![t] = Idle]
                /\ last' = [FlagCall(op, t, f.flag) EXCEPT !.existed = f.existed]
                /\ disconnected' = IF op = "disable_signals"
                                   THEN disconnected \cup dict_keys(_registry)
                                   ELSE disconnected
           ELSE /\ pc' = [pc EXCEPT
                             ![t].it = dict_advance(_registry, f.it),
                             ![t].cls = IF disable_auditlog THEN None
                                        ELSE dict_next(_registry, f.it)]
                /\ last' = Running(t)
                /\ UNCHANGED disconnected
        /\ UNCHANGED <<fixed, tables, _registry, flags, receivers, disabled, touched>>

\* for cls in self._registry: self._disconnect_signals(cls)
disable_signals_next(t) == registry_next(t, "disable_signals")

\* for cls in self._registry: self._connect_signals(cls)
enable_signals_next(t) == registry_next(t, "enable_signals")

\* Some registered model has a signal of the map that reaches no receiver.
some_disconnected ==
    \E m \in dict_keys(_registry), sg \in dict_keys(_signals) :
        live_receivers(receivers, sg, m) = {}

\* enable_signals that reconnects nothing.
enable_signals_without_reconnect(t, reconnect) ==
    /\ pc[t] = Idle
    /\ flags' = [flags EXCEPT ![t].enable_all = TRUE]
    /\ disabled' = disabled \ {t}
    /\ touched' = touched \cup {t}
    /\ disconnected' = IF reconnect THEN {} ELSE disconnected
    /\ last' = [FlagCall("enable_signals", t, reconnect) EXCEPT !.existed = some_disconnected]
    /\ UNCHANGED <<fixed, tables, _registry, receivers, pc>>

\* auditlog.enable_signals(reconnect), called by thread t: the thread's
\* enable_all is set and, with reconnect, the iteration over self._registry
\* starts.
enable_signals(t, reconnect) ==
    /\ pc[t] = Idle
    /\ flags' = [flags EXCEPT ![t].enable_all = TRUE]
    /\ disabled' = disabled \ {t}
    /\ touched' = touched \cup {t}
    /\ disconnected' = IF reconnect THEN {} ELSE disconnected
    /\ IF reconnect
       THEN /\ pc' = [pc EXCEPT ![t] = frame("enable_signals", None, dict_iter(_registry),
                                             TRUE, some_disconnected, None)]
            /\ last' = Running(t)
       ELSE /\ last' = [FlagCall("enable_signals", t, FALSE) EXCEPT
                            !.existed = some_disconnected]
            /\ UNCHANGED pc
    /\ UNCHANGED <<fixed, tables, _registry, receivers>>

\* auditlog.can_create = value, assigned by thread t
set_can_create(t, value) ==
    /\ pc[t] = Idle
    /\ flags' = [flags EXCEPT ![t].enable_create = value]
    /\ last' = FlagCall("set_can_create", t, value)
    /\ touched' = touched \cup {t}
    /\ UNCHANGED <<fixed, tables, _registry, receivers, pc, disabled, disconnected>>

\* auditlog.can_update = value, assigned by thread t
set_can_update(t, value) ==
    /\ pc[t] = Idle
    /\ flags' = [flags EXCEPT ![t].enable_update = value]
    /\ last' = FlagCall("set_can_update", t, value)
    /\ touched' = touched \cup {t}
    /\ UNCHANGED <<fixed, tables, _registry, receivers, pc, disabled, disconnected>>

\* auditlog.can_delete = value, assigned by thread t
set_can_delete(t, value) ==
    /\ pc[t] = Idle
    /\ flags' = [flags EXCEPT ![t].enable_delete = value]
    /\ last' = FlagCall("set_can_delete", t, value)
    /\ touched' = touched \cup {t}
    /\ UNCHANGED <<fixed, tables, _registry, receivers, pc, disabled, disconnected>>

\* ---------------------------------------------------------------- the diff
\* model_instance_diff(old, new): over the union of the field names, the pair
\* (old, new) of every field whose old and new values are unequal.
model_instance_diff(old, new) ==
    LET names == DOMAIN old.fields \cup DOMAIN new.fields
    IN  [f \in {g \in names : old.fields[g] # new.fields[g]} |->
             <<old.fields[f], new.fields[f]>>]

\* LogEntry.objects.log_create(instance, action, changes): the row written;
\* of the serialized changes the row keeps the keys.
LogEntry_log_create(instance, action, changes) ==
    [action |-> action, model |-> instance.cls, object_pk |-> instance.pk,
     changes |-> DOMAIN changes]

\* Whether sender.objects.get(pk=pk) finds a row.
has_row(sender, pk) == pk \in DOMAIN db[sender]

\* sender.objects.get(pk=pk): the stored row as an instance.
objects_get(sender, pk) == [cls |-> sender, pk |-> pk, fields |-> db[sender][pk]]

\* The pks of a set in ascending order.
RECURSIVE ordered(_)
ordered(S) ==
    IF S = {} THEN <<>>
    ELSE LET p == CHOOSE x \in S : \A y \in S : x <= y
         IN  <<p>> \o ordered(S \ {p})

\* ---------------------------------------------------------------- receivers
\* Each receiver is the sequence of LogEntry rows one invocation goes on to
\* write, given the tables as its query finds them.
\* log_create without the test of `created`.
log_create_on_every_save(t, sender, instance, created) ==
    IF can_create(t)
    THEN <<LogEntry_log_create(instance, "CREATE", model_instance_diff(NoInstance, instance))>>
    ELSE <<>>

log_create(t, sender, instance, created) ==
    IF created /\ can_create(t)
    THEN <<LogEntry_log_create(instance, "CREATE", model_instance_diff(NoInstance, instance))>>
    ELSE <<>>

\* log_update without the test `if changes`.
log_update_without_test(t, sender, instance) ==
    IF instance.pk # NoPk /\ can_update(t)
    THEN IF ~has_row(sender, instance.pk)
         THEN <<>>
         ELSE <<LogEntry_log_create(instance, "UPDATE",
                    model_instance_diff(objects_get(sender, instance.pk), instance))>>
    ELSE <<>>

log_update(t, sender, instance) ==
    IF instance.pk # NoPk /\ can_update(t)
    THEN IF ~has_row(sender, instance.pk)
         THEN <<>>
         ELSE LET old == objects_get(sender, instance.pk)
                  changes == model_instance_diff(old, instance)
              IN  IF DOMAIN changes # {}
                  THEN <<LogEntry_log_create(instance, "UPDATE", changes)>>
                  ELSE <<>>
    ELSE <<>>

\* log_delete gated by can_create.
log_delete_reads_can_create(t, sender, instance) ==
    IF instance.pk # NoPk /\ can_create(t)
    THEN <<LogEntry_log_create(instance, "DELETE", model_instance_diff(instance, NoInstance))>>
    ELSE <<>>

log_delete(t, sender, instance) ==
    IF instance.pk # NoPk /\ can_delete(t)
    THEN <<LogEntry_log_create(instance, "DELETE", model_instance_diff(instance, NoInstance))>>
    ELSE <<>>

\* One row per stored parent (a row of `model` whose pk is in pk_set).
log_m2m_changed(t, sender, instance, action, model, pk_set) ==
    IF action \in {"post_add", "post_remove", "post_clear"} /\ pk_set # {}
    THEN LET action_suffix == CASE action = "post_add" -> "add"
                                [] action = "post_remove" -> "remove"
                                [] OTHER -> "clear"
             parents == ordered(pk_set \cap DOMAIN db[model])
         IN  [i \in 1..Len(parents) |->
                 LogEntry_log_create(
                     objects_get(model, parents[i]), "UPDATE",
                     [k \in {"id", action_suffix, "type", "through"} |->
                         CASE k = "id" ->
                                IF action_suffix = "add" THEN <<instance.pk, parents[i]>>
                                ELSE <<parents[i], instance.pk>>
                           [] k = "type" ->
                                IF action_suffix = "add" THEN <<instance.cls, model>>
                                ELSE <<model, instance.cls>>
                           [] k = "through" -> <<sender, None>>
                           [] OTHER ->
                                IF action_suffix = "add" THEN <<instance.cls, model>>
                                ELSE <<model, instance.cls>>])]
    ELSE <<>>

\* ------------------------------------------------------- running a receiver
\* The LogEntry table holds fewer than MaxLog rows: calls that may write a row
\* start while it does.
RunOpen == Len(log) < MaxLog

\* The stored row of the instance differs from it.
row_differs(instance) ==
    /\ instance.pk # NoPk
    /\ has_row(instance.cls, instance.pk)
    /\ db[instance.cls][instance.pk] # instance.fields

\* receiver(sender, **kwargs) in thread t: the rows it writes, given the
\* tables as they are when it makes its query.
call_receiver(receiver, t, sender, kw) ==
    CASE receiver = "log_create" -> log_create(t, sender, kw.instance, kw.created)
      [] receiver = "log_update" -> log_update(t, sender, kw.instance)
      [] receiver = "log_delete" -> log_delete(t, sender, kw.instance)
      [] OTHER -> log_m2m_changed(t, sender, kw.instance, kw.action, kw.model, kw.pk_set)

\* The receivers that query a model table (sender.objects.get,
\* model.objects.filter) before they write: the query and each
\* LogEntry.objects.log_create that follows are separate statements, with no
\* transaction around them.
ReadsFirst == {"log_update", "log_m2m_changed"}

\* The call of thread t goes on with frame f; when the receivers of its signal
\* have all returned it goes on to the write (pre_save, pre_delete) or returns.
resume(t, f) ==
    IF f.todo # <<>> \/ f.pending # <<>>
    THEN /\ pc' = [pc EXCEPT ![t] = f]
         /\ last' = Running(t)
    ELSE IF f.at \in {"pre_save", "pre_delete"}
    THEN /\ pc' = [pc EXCEPT ![t] = [f EXCEPT !.at = "write"]]
         /\ last' = Running(t)
    ELSE /\ pc' = [pc EXCEPT ![t] = Idle]
         /\ last' = ReceiverCall(f.op, t, f.cls, f.has_pk, f.flag, f.existed, f.changed,
                                 f.wrote)

\* A receiver is called in frame f of thread t. log_update and log_m2m_changed
\* make their query and keep the rows they go on to write; log_create and
\* log_delete, which make no query, write their row.
invoke(t, f, receiver) ==
    LET rows == call_receiver(receiver, t, f.kw.sender, f.kw)
    IN  IF receiver \in ReadsFirst
        THEN /\ UNCHANGED log
             /\ resume(t, [f EXCEPT !.pending = rows])
        ELSE /\ log' = log \o rows
             /\ resume(t, [f EXCEPT !.wrote = f.wrote + Len(rows)])

\* LogEntry.objects.log_create in log_update or log_m2m_changed, called by
\* thread t: the next row the receiver computed from its query is written.
log_entry_write(t) ==
    LET f == pc[t]
    IN  /\ f.pending # <<>>
        /\ log' = Append(log, Head(f.pending))
        /\ resume(t, [f EXCEPT !.pending = Tail(f.pending), !.wrote = f.wrote + 1])
        /\ UNCHANGED <<fixed, _registry, flags, receivers, db, disabled, disconnected,
                       touched>>

\* -------------------------------------------------- receivers called directly
call_log_create(t, instance, created) ==
    /\ pc[t] = Idle
    /\ RunOpen
    /\ invoke(t, [Idle EXCEPT !.op = "log_create", !.at = "call", !.flag = created,
                              !.kw = Kwargs(instance.cls, instance, created, None, None, {})],
              "log_create")
    /\ UNCHANGED <<fixed, _registry, flags, receivers, db, disabled, disconnected, touched>>

call_log_update(t, instance) ==
    /\ pc[t] = Idle
    /\ RunOpen
    /\ invoke(t, [Idle EXCEPT !.op = "log_update", !.at = "call",
                              !.has_pk = instance.pk # NoPk,
                              !.existed = instance.pk # NoPk
                                          /\ has_row(instance.cls, instance.pk),
                              !.changed = row_differs(instance),
                              !.kw = Kwargs(instance.cls, instance, FALSE, None, None, {})],
              "log_update")
    /\ UNCHANGED <<fixed, _registry, flags, receivers, db, disabled, disconnected, touched>>

call_log_delete(t, instance) ==
    /\ pc[t] = Idle
    /\ RunOpen
    /\ invoke(t, [Idle EXCEPT !.op = "log_delete", !.at = "call",
                              !.has_pk = instance.pk # NoPk,
                              !.kw = Kwargs(instance.cls, instance, FALSE, None, None, {})],
              "log_delete")
    /\ UNCHANGED <<fixed, _registry, flags, receivers, db, disabled, disconnected, touched>>

call_log_m2m_changed(t, sender, instance, action, model, pk_set) ==
    /\ pc[t] = Idle
    /\ RunOpen
    /\ invoke(t, [Idle EXCEPT !.op = "log_m2m_changed", !.at = "call",
                              !.kw = Kwargs(sender, instance, FALSE, action, model, pk_set)],
              "log_m2m_changed")
    /\ UNCHANGED <<fixed, _registry, flags, receivers, db, disabled, disconnected, touched>>

\* ------------------------------------------------------------ model events
\* The receiver functions of a set of connections, one per connection.
RECURSIVE receiver_functions(_)
receiver_functions(conn) ==
    IF conn = {} THEN <<>>
    ELSE LET k == CHOOSE x \in conn : TRUE
         IN  <<k[4]>> \o receiver_functions(conn \ {k})

\* signal.send(sender, **kwargs): the receivers it goes on to call, those
\* connected for (signal, sender) when the signal is sent.
send(signal, sender) == receiver_functions(live_receivers(receivers, signal, sender))

\* signal.send in a model event of thread t: the next receiver is called.
send_next(t) ==
    LET f == pc[t]
    IN  /\ f.pending = <<>>
        /\ f.todo # <<>>
        /\ invoke(t, [f EXCEPT !.todo = Tail(f.todo)], Head(f.todo))
        /\ UNCHANGED <<fixed, _registry, flags, receivers, db, disabled, disconnected,
                       touched>>

\* instance.save() called by thread t: pre_save is sent. Its receivers are
\* called, then the row is written and post_save is sent.
save(t, instance) ==
    LET sender == instance.cls
    IN  /\ pc[t] = Idle
        /\ RunOpen
        /\ instance.pk = NoPk => DOMAIN db[sender] # Pks
        /\ resume(t, [Idle EXCEPT !.op = "save", !.cls = sender, !.at = "pre_save",
                                  !.todo = send("pre_save", sender),
                                  !.has_pk = instance.pk # NoPk,
                                  !.existed = instance.pk # NoPk
                                              /\ has_row(sender, instance.pk),
                                  !.changed = row_differs(instance),
                                  !.kw = Kwargs(sender, instance, FALSE, None, None, {})])
        /\ UNCHANGED <<fixed, tables, _registry, flags, receivers, disabled, disconnected,
                       touched>>

\* The write of instance.save() in thread t: the row with the instance's pk is
\* updated; when there is none a row is inserted, and an instance without a pk
\* is assigned a free one. post_save will pass `created` for an insert.
save_table(t) ==
    LET f == pc[t]
        instance == f.kw.instance
        updated == instance.pk # NoPk /\ has_row(f.cls, instance.pk)
    IN  /\ f.op = "save"
        /\ f.at = "write"
        /\ \E pk \in Pks :
              /\ IF instance.pk = NoPk THEN pk \notin DOMAIN db[f.cls] ELSE pk = instance.pk
              /\ db' = [db EXCEPT ![f.cls] =
                            [p \in DOMAIN db[f.cls] \cup {pk} |->
                                 IF p = pk THEN instance.fields ELSE db[f.cls][p]]]
              /\ pc' = [pc EXCEPT ![t] =
                            [f EXCEPT !.at = "send",
                                      !.kw = Kwargs(f.cls, [instance EXCEPT !.pk = pk],
                                                    ~updated, None, None, {})]]
        /\ last' = Running(t)
        /\ UNCHANGED <<fixed, log, _registry, flags, receivers, disabled, disconnected,
                       touched>>

\* instance.delete() called by thread t, for a stored instance: pre_delete is
\* sent. Its receivers are called, then the row is removed and post_delete is
\* sent.
delete(t, instance) ==
    LET sender == instance.cls
    IN  /\ pc[t] = Idle
        /\ RunOpen
        /\ instance.pk # NoPk
        /\ has_row(sender, instance.pk)
        /\ instance.fields = db[sender][instance.pk]
        /\ resume(t, [Idle EXCEPT !.op = "delete", !.cls = sender, !.at = "pre_delete",
                                  !.todo = send("pre_delete", sender),
                                  !.has_pk = TRUE, !.existed = TRUE,
                                  !.kw = Kwargs(sender, instance, FALSE, None, None, {})])
        /\ UNCHANGED <<fixed, tables, _registry, flags, receivers, disabled, disconnected,
                       touched>>

\* The write of instance.delete() in thread t: the row is removed.
delete_batch(t) ==
    LET f == pc[t]
    IN  /\ f.op = "delete"
        /\ f.at = "write"
        /\ db' = [db EXCEPT ![f.cls] =
                      [p \in DOMAIN db[f.cls] \ {f.kw.instance.pk} |-> db[f.cls][p]]]
        /\ pc' = [pc EXCEPT ![t].at = "send"]
        /\ last' = Running(t)
        /\ UNCHANGED <<fixed, log, _registry, flags, receivers, disabled, disconnected,
                       touched>>

\* post_save or post_delete is sent by thread t, after the write.
send_post(t) ==
    LET f == pc[t]
        signal == IF f.op = "save" THEN "post_save" ELSE "post_delete"
    IN  /\ f.op \in {"save", "delete"}
        /\ f.at = "send"
        /\ resume(t, [f EXCEPT !.at = signal, !.todo = send(signal, f.cls)])
        /\ UNCHANGED <<fixed, tables, _registry, flags, receivers, disabled, disconnected,
                       touched>>

\* m2m_changed sent by the through model `sender` in thread t.
m2m_changed(t, sender, instance, action, model, pk_set) ==
    /\ pc[t] = Idle
    /\ RunOpen
    /\ resume(t, [Idle EXCEPT !.op = "m2m_changed", !.cls = sender, !.at = "m2m_changed",
                              !.todo = send("m2m_changed", sender),
                              !.kw = Kwargs(sender, instance, FALSE, action, model, pk_set)])
    /\ UNCHANGED <<fixed, tables, _registry, flags, receivers, disabled, disconnected,
                   touched>>
\* ------------------------------------------------------------ specifications
Register == \E t \in Threads, c \in Classes, cfg \in Configs : register(t, c, cfg)
RegisterDecorator ==
    \E t \in Threads, c \in Classes, cfg \in Configs : register_decorator(t, c, cfg)
RegisterM2M == \E t \in Threads, c \in Classes : register_m2m(t, c)
RegisterM2MDecorator == \E t \in Threads, c \in Classes : register_m2m_decorator(t, c)
Unregister == \E t \in Threads, c \in Classes : unregister(t, c)
RegisterModel == \E t \in Threads, c \in Models : register(t, c, DefaultConfig)
RegisterDecoratorModel ==
    \E t \in Threads, c \in Models : register_decorator(t, c, DefaultConfig)
ConnectSignals == \E t \in Threads : _connect_signals(t)
DisconnectSignals == \E t \in Threads : _disconnect_signals(t)
DisableSignals == \E t \in Threads, d \in BOOLEAN : disable_signals(t, d)
DisableSignalsNext == \E t \in Threads : disable_signals_next(t)
EnableSignals == \E t \in Threads, r \in BOOLEAN : enable_signals(t, r)
EnableSignalsNext == \E t \in Threads : enable_signals_next(t)
SetCanCreate == \E t \in Threads, v \in BOOLEAN : set_can_create(t, v)
SetCanUpdate == \E t \in Threads, v \in BOOLEAN : set_can_update(t, v)
SetCanDelete == \E t \in Threads, v \in BOOLEAN : set_can_delete(t, v)
DisableFlagOnly == \E t \in Threads : disable_signals(t, FALSE)
EnableFlagOnly == \E t \in Threads : enable_signals(t, FALSE)

\* The registry and its connections: either thread registers and unregisters,
\* one call after the other (a call starts when no call is under way).
NextRegistry ==
    \/ Quiet /\ Register
    \/ Quiet /\ RegisterDecorator
    \/ Quiet /\ RegisterM2M
    \/ Quiet /\ RegisterM2MDecorator
    \/ Quiet /\ Unregister
    \/ ConnectSignals
    \/ DisconnectSignals

SpecRegistry == InitRegistry /\ [][NextRegistry]_vars

\* register and unregister alone, one call after the other: no register_m2m,
\* no disable_signals(disconnect=True).
NextRegister ==
    \/ Quiet /\ RegisterModel
    \/ Quiet /\ RegisterDecoratorModel
    \/ Quiet /\ Unregister
    \/ Quiet /\ DisableFlagOnly
    \/ Quiet /\ EnableSignals
    \/ ConnectSignals
    \/ DisconnectSignals
    \/ EnableSignalsNext

SpecRegister == InitRegistry /\ [][NextRegister]_vars

\* register and unregister while signals are disabled and enabled, one call
\* after the other: no register_m2m.
NextReconnect ==
    \/ Quiet /\ RegisterModel
    \/ Quiet /\ RegisterDecoratorModel
    \/ Quiet /\ Unregister
    \/ Quiet /\ DisableSignals
    \/ Quiet /\ EnableSignals
    \/ ConnectSignals
    \/ DisconnectSignals
    \/ DisableSignalsNext
    \/ EnableSignalsNext

SpecReconnect == InitRegistry /\ [][NextReconnect]_vars
CallLogCreate == \E t \in Threads, i \in Plain, c \in BOOLEAN : call_log_create(t, i, c)
CallLogUpdate == \E t \in Threads, i \in Instances : call_log_update(t, i)
CallLogDelete == \E t \in Threads, i \in Plain : call_log_delete(t, i)
CallLogM2MChanged ==
    \E t \in Threads, i \in Children, a \in M2MActions, m \in Models, ps \in PkSets :
        call_log_m2m_changed(t, Through, i, a, m, ps)
Save == \E t \in Threads, i \in Saved : save(t, i)
Delete == \E t \in Threads, i \in Saved : delete(t, i)
SendNext == \E t \in Threads : send_next(t)
LogEntryWrite == \E t \in Threads : log_entry_write(t)
SaveTable == \E t \in Threads : save_table(t)
DeleteBatch == \E t \in Threads : delete_batch(t)
SendPost == \E t \in Threads : send_post(t)
M2MChanged ==
    \E t \in Threads, s \in Models, i \in Children, a \in M2MActions, m \in Models,
       ps \in PkSets : m2m_changed(t, s, i, a, m, ps)

\* The flags alone: the calls of the two threads interleave.
NextFlags ==
    \/ DisableSignals
    \/ EnableSignals
    \/ SetCanCreate
    \/ SetCanUpdate
    \/ SetCanDelete
    \/ DisableSignalsNext
    \/ EnableSignalsNext

SpecFlags == Init /\ [][NextFlags]_vars

\* The receivers, called in a thread whose flags are set by that thread; the
\* calls of the two threads interleave.
NextReceivers ==
    \/ RunOpen /\ DisableFlagOnly
    \/ RunOpen /\ EnableFlagOnly
    \/ RunOpen /\ SetCanCreate
    \/ RunOpen /\ SetCanUpdate
    \/ RunOpen /\ SetCanDelete
    \/ CallLogCreate
    \/ CallLogUpdate
    \/ CallLogDelete
    \/ CallLogM2MChanged
    \/ LogEntryWrite

\* The receivers read the flags and the tables, not disable_auditlog.
InitReceivers ==
    \E us \in {u \in UserSettings : ~u.disable_auditlog} :
        /\ disable_auditlog = us.disable_auditlog
        /\ _registry = EmptyDict
        /\ _signals = init_signals(TRUE, TRUE, TRUE, <<>>, us.disable_auditlog)
        /\ flags = [t \in Threads |->
                        IF t = "main" THEN init_flags(TRUE, TRUE, TRUE) ELSE FlagLocals(us)]
        /\ receivers = {}
        /\ db = StoredRows
        /\ log = <<>>
        /\ pc = [t \in Threads |-> Idle]
        /\ last = NoCall
        /\ disabled = {}
        /\ disconnected = {}
        /\ constructed = read_flags(init_flags(TRUE, TRUE, TRUE))
        /\ touched = {}

SpecReceivers == InitReceivers /\ [][NextReceivers]_vars

\* Registered models saved and deleted, one call after the other; a call
\* starts while the LogEntry table holds fewer than MaxLog rows.
NextEvents ==
    \/ RunOpen /\ Quiet /\ RegisterModel
    \/ RunOpen /\ Quiet /\ Unregister
    \/ ConnectSignals
    \/ DisconnectSignals
    \/ Quiet /\ Save
    \/ Quiet /\ Delete
    \/ SendNext
    \/ LogEntryWrite
    \/ SaveTable
    \/ DeleteBatch
    \/ SendPost

SpecEvents == InitRegistry /\ [][NextEvents]_vars

\* One thread switches its signals off and on while the other registers and
\* unregisters a model and saves and deletes its instances: the calls of the
\* two interleave.
NextThreads ==
    \/ RunOpen /\ register("worker", "Author", DefaultConfig)
    \/ RunOpen /\ unregister("worker", "Author")
    \/ RunOpen /\ \E d \in BOOLEAN : disable_signals("main", d)
    \/ RunOpen /\ \E r \in BOOLEAN : enable_signals("main", r)
    \/ ConnectSignals
    \/ DisconnectSignals
    \/ DisableSignalsNext
    \/ EnableSignalsNext
    \/ \E i \in Saved : save("worker", i)
    \/ \E i \in Saved : delete("worker", i)
    \/ SendNext
    \/ LogEntryWrite
    \/ SaveTable
    \/ DeleteBatch
    \/ SendPost

\* The module-level registry under the default settings.
InitThreads ==
    /\ disable_auditlog = DefaultSettings.disable_auditlog
    /\ _registry = EmptyDict
    /\ _signals = init_signals(TRUE, TRUE, TRUE, <<>>, DefaultSettings.disable_auditlog)
    /\ flags = [t \in Threads |->
                    IF t = "main" THEN init_flags(TRUE, TRUE, TRUE)
                    ELSE FlagLocals(DefaultSettings)]
    /\ receivers = {}
    /\ db = [m \in Models |-> <<>>]
    /\ log = <<>>
    /\ pc = [t \in Threads |-> Idle]
    /\ last = NoCall
    /\ disabled = {}
    /\ disconnected = {}
    /\ constructed = read_flags(init_flags(TRUE, TRUE, TRUE))
    /\ touched = {}

SpecThreads == InitThreads /\ [][NextThreads]_vars

\* Every call of every thread, interleaved.
Next ==
    \/ Register
    \/ RegisterDecorator
    \/ RegisterM2M
    \/ RegisterM2MDecorator
    \/ Unregister
    \/ ConnectSignals
    \/ DisconnectSignals
    \/ DisableSignals
    \/ DisableSignalsNext
    \/ EnableSignals
    \/ EnableSignalsNext
    \/ SetCanCreate
    \/ SetCanUpdate
    \/ SetCanDelete
    \/ CallLogCreate
    \/ CallLogUpdate
    \/ CallLogDelete
    \/ CallLogM2MChanged
    \/ Save
    \/ Delete
    \/ M2MChanged
    \/ SendNext
    \/ LogEntryWrite
    \/ SaveTable
    \/ DeleteBatch
    \/ SendPost

Spec == Init /\ [][Next]_vars

\* AuditlogModelRegistry(create, update, delete, custom), constructed by the
\* main thread with any arguments under any of the settings.
InitConstruct ==
    \E us \in UserSettings, c \in BOOLEAN, u \in BOOLEAN, d \in BOOLEAN, cu \in Customs :
        /\ disable_auditlog = us.disable_auditlog
        /\ _registry = EmptyDict
        /\ _signals = init_signals(c, u, d, cu, us.disable_auditlog)
        /\ flags = [t \in Threads |->
                        IF t = "main" THEN init_flags(c, u, d)
                        ELSE FlagLocals(us)]
        /\ receivers = {}
        /\ db = [m \in Models |-> <<>>]
        /\ log = <<>>
        /\ pc = [t \in Threads |-> Idle]
        /\ last = NoCall
        /\ disabled = {}
        /\ disconnected = {}
        /\ constructed = read_flags(init_flags(c, u, d))
        /\ touched = {}

\* A registry so constructed, and the flag calls made on it one after the
\* other.
NextConstruct ==
    \/ Quiet /\ DisableSignals
    \/ Quiet /\ EnableSignals
    \/ Quiet /\ SetCanCreate
    \/ Quiet /\ SetCanUpdate
    \/ Quiet /\ SetCanDelete
    \/ DisableSignalsNext
    \/ EnableSignalsNext

SpecConstruct == InitConstruct /\ [][NextConstruct]_vars

\* ------------------------------------------------------------------ claims
ReceiverOps == {"log_create", "log_update", "log_delete", "log_m2m_changed"}

\* The row the last call wrote last.
LastRow == log[Len(log)]

\* C1 (as stated): a receiver called in a thread that has called
\* disable_signals(), and not enable_signals() since, writes no LogEntry row,
\* whichever receiver it is. log_m2m_changed reads no flag and writes its rows.
C1_EveryReceiverGuarded ==
    (last.op \in ReceiverOps /\ last.thread \in disabled) => last.wrote = 0

\* C2: log_create writes one CREATE row exactly when created and the thread's
\* enable_create and enable_all are set; log_delete writes one DELETE row
\* exactly when the instance has a pk and enable_delete and enable_all are set;
\* log_update writes nothing unless enable_update and enable_all are set, and
\* whether it writes does not depend on the other two flags; can_X is
\* enable_X and enable_all.
C2_EachFlagGatesItsKind ==
    /\ last.op = "log_create" =>
          /\ last.wrote = (IF /\ last.flag
                              /\ flags[last.thread].enable_create
                              /\ flags[last.thread].enable_all THEN 1 ELSE 0)
          /\ last.wrote = 1 => LastRow.action = "CREATE"
    /\ last.op = "log_delete" =>
          /\ last.wrote = (IF /\ last.has_pk
                              /\ flags[last.thread].enable_delete
                              /\ flags[last.thread].enable_all THEN 1 ELSE 0)
          /\ last.wrote = 1 => LastRow.action = "DELETE"
    /\ last.op = "log_update" =>
          /\ ~(flags[last.thread].enable_update /\ flags[last.thread].enable_all)
                => last.wrote = 0
          /\ (/\ last.changed
              /\ flags[last.thread].enable_update
              /\ flags[last.thread].enable_all) => last.wrote = 1
    /\ \A t \in Threads :
          /\ can_create(t) <=> (flags[t].enable_create /\ flags[t].enable_all)
          /\ can_update(t) <=> (flags[t].enable_update /\ flags[t].enable_all)
          /\ can_delete(t) <=> (flags[t].enable_delete /\ flags[t].enable_all)

\* C2 witness: log_delete wrote its DELETE row in a thread whose create and
\* update flags are off.
C2_Witness ==
    /\ last.op = "log_delete"
    /\ last.wrote = 1
    /\ LastRow.action = "DELETE"
    /\ ~flags[last.thread].enable_create
    /\ ~flags[last.thread].enable_update

\* C3: a call that reads or writes the flags in one thread leaves the
\* can_create, can_update and can_delete every other thread reads unchanged.
C3_FlagsPerThread ==
    [][\A t \in Threads :
          last'.thread # t =>
              /\ can_create(t)' = can_create(t)
              /\ can_update(t)' = can_update(t)
              /\ can_delete(t)' = can_delete(t)]_vars

\* C3 witness: the main thread has disabled its signals and switched its three
\* flags off; the worker thread still reads all three as set.
C3_Witness ==
    /\ last.thread = "main"
    /\ "main" \in disabled
    /\ ~flags["main"].enable_create
    /\ ~flags["main"].enable_update
    /\ ~flags["main"].enable_delete
    /\ can_create("worker") /\ can_update("worker") /\ can_delete("worker")

\* C4: log_update writes exactly one UPDATE row when the instance has a pk,
\* can_update holds, a row with that pk is stored and some field of the row
\* differs from the instance; otherwise it writes nothing and raises nothing.
C4_UpdateOnlyIfChanged ==
    last.op = "log_update" =>
        /\ last.wrote = (IF /\ last.has_pk
                            /\ can_update(last.thread)
                            /\ last.existed
                            /\ last.changed THEN 1 ELSE 0)
        /\ last.wrote = 1 => LastRow.action = "UPDATE" /\ LastRow.changes # {}
        /\ last.raised = None

\* C4 witness: log_update has been called on an unchanged stored instance with
\* can_update set, and wrote nothing.
C4_Witness ==
    /\ last.op = "log_update"
    /\ last.has_pk /\ last.existed /\ ~last.changed
    /\ can_update(last.thread)
    /\ last.wrote = 0

\* The receiver of the signal map is connected for (signal, model).
Connected(sg, m) ==
    \E k \in receivers : k[1] = sg /\ k[3] = m /\ k[2] = _dispatch_uid(sg, m)

RegisterOps == {"register", "register_decorator"}
RegisterM2MOps == {"register_m2m", "register_m2m_decorator"}

\* C5: with auditlog not disabled by the settings and calls made one after
\* the other, a model is in the registry when a register call for it returns
\* and out of it when an unregister call for it returns, a step of no call for
\* the model leaves it as it was, and whenever a call returns the receiver of
\* every signal of the signal map is connected for a model exactly when the
\* model is in the registry.
C5_ConnectedWhileRegistered ==
    [][~disable_auditlog =>
          \A m \in Models :
              /\ (last'.cls = m /\ last'.op \in RegisterOps) => contains(m)'
              /\ (last'.cls = m /\ last'.op = "unregister") => ~contains(m)'
              /\ (last'.cls # m /\ \A t \in Threads : pc[t].cls # m /\ pc'[t].cls # m)
                    => (contains(m)' <=> contains(m))
              /\ last'.op # "running" =>
                    \A sg \in dict_keys(_signals)' : Connected(sg, m)' <=> contains(m)']_vars

\* C5 witness: a model has been unregistered and has no receiver connected,
\* while the other model is registered with all four receivers connected.
C5_Witness ==
    /\ last.op = "unregister" /\ last.existed
    /\ ~contains(last.cls)
    /\ \A sg \in dict_keys(_signals) : ~Connected(sg, last.cls)
    /\ \E m \in Models : contains(m) /\ \A sg \in dict_keys(_signals) : Connected(sg, m)
    /\ Cardinality(dict_keys(_signals)) = 4

\* C6: register and register_m2m, in both calling forms, raise TypeError for a
\* class that is not a subclass of Model and then leave the registry and the
\* connected receivers as they were.
C6_TypeErrorChangesNothing ==
    [][(last'.op \in RegisterOps \cup RegisterM2MOps /\ last'.cls \notin Models) =>
          /\ last'.raised = "TypeError"
          /\ _registry' = _registry
          /\ receivers' = receivers]_vars

\* C6 witness: a call was rejected with TypeError while a model is registered
\* and connected.
C6_Witness ==
    /\ last.op \in RegisterOps \cup RegisterM2MOps
    /\ last.raised = "TypeError"
    /\ last.cls \in NonModels
    /\ \E m \in Models : contains(m) /\ Connected("m2m_changed", m)

\* C7 (as stated): after register_m2m, in the direct and in the decorator form,
\* the m2m receiver is connected with the supplied class as sender and with no
\* sender the call did not name, and the decorator form returns the class. The
\* decorator form connects the receiver with sender None instead.
C7_RegisterM2MConnectsTheClass ==
    (~disable_auditlog /\ last.op \in RegisterM2MOps /\ last.raised = None) =>
        /\ Connected("m2m_changed", last.cls)
        /\ last.op = "register_m2m_decorator" =>
              /\ last.ret = last.cls
              /\ ~\E k \in receivers : k[3] = None

\* C9 (as stated): however often a model is registered, and whether or not
\* register_m2m is called too, a signal sent by a registered model, while no
\* call is under way, reaches exactly one receiver. After register(M) and the decorator form of
\* register_m2m, m2m_changed sent by M reaches two.
C9_ConnectedOnce ==
    (~disable_auditlog /\ Quiet) =>
        \A m \in dict_keys(_registry), sg \in dict_keys(_signals) :
            Cardinality(live_receivers(receivers, sg, m)) = 1

\* C10: after enable_signals(reconnect=True) the receiver of every signal of
\* the signal map is connected for a model exactly when the model is in the
\* registry; and a model that was registered when
\* disable_signals(disconnect=True) was called, and was not registered again
\* since, has no receiver connected until signals are reconnected.
C10_ReconnectRestores ==
    /\ (last.op = "enable_signals" /\ last.flag /\ last.raised = None) =>
          \A m \in Models, sg \in dict_keys(_signals) : Connected(sg, m) <=> contains(m)
    /\ \A m \in disconnected : \A sg \in dict_keys(_signals) : ~Connected(sg, m)

\* C10 witness: enable_signals(reconnect=True) found a registered model
\* disconnected and reconnected it, while a model unregistered in between
\* stays disconnected.
C10_Witness ==
    /\ last.op = "enable_signals" /\ last.flag /\ last.existed
    /\ \E m \in Models : contains(m) /\ \A sg \in dict_keys(_signals) : Connected(sg, m)
    /\ \E m \in Models : ~contains(m)
    /\ Cardinality(dict_keys(_signals)) = 4

AllEnabled(t) ==
    /\ flags[t].enable_all /\ flags[t].enable_create
    /\ flags[t].enable_update /\ flags[t].enable_delete

\* C8: a save of an instance of a registered model, in a thread with all
\* logging enabled, writes exactly one CREATE row and no UPDATE row when no row
\* was stored (whether or not the instance had a pk), exactly one UPDATE row and
\* no CREATE row when a stored row differed, and nothing when the stored row
\* was the same.
C8_OneRowPerSave ==
    (/\ last.op = "save"
     /\ ~disable_auditlog
     /\ contains(last.cls)
     /\ AllEnabled(last.thread)) =>
        /\ last.wrote = (IF ~last.existed \/ last.changed THEN 1 ELSE 0)
        /\ last.wrote = 1 =>
              LastRow.action = (IF last.existed THEN "UPDATE" ELSE "CREATE")

\* C8 witness: a later save of a changed instance of a registered model wrote
\* one UPDATE row.
C8_Witness ==
    /\ last.op = "save"
    /\ ~disable_auditlog
    /\ contains(last.cls)
    /\ AllEnabled(last.thread)
    /\ last.existed /\ last.changed
    /\ last.wrote = 1
    /\ LastRow.action = "UPDATE"

\* C11: unregister of a model that is not in the registry raises nothing and
\* leaves the registry and every connected receiver as they were, a receiver
\* that register_m2m connected for that model included; every step of an
\* unregister of a registered model removes nothing but that model's entry and
\* receivers connected with it as sender, and when the call returns the model
\* has no entry and no receiver connected with it as sender.
C11_UnregisterFrame ==
    [][/\ (last'.op = "unregister" /\ ~last'.existed) =>
              /\ last'.raised = None
              /\ _registry' = _registry
              /\ receivers' = receivers
       /\ \A t \in Threads :
              (pc[t].op = "unregister" \/ pc'[t].op = "unregister") =>
                  LET m == IF pc[t].op = "unregister" THEN pc[t].cls ELSE pc'[t].cls
                  IN  /\ _registry' = dict_del(_registry, m)
                      /\ receivers' \subseteq receivers
                      /\ {k \in receivers : k[3] # m} \subseteq receivers'
       /\ (last'.op = "unregister" /\ last'.existed) =>
              /\ last'.raised = None
              /\ last'.cls \notin dict_keys(_registry')
              /\ _registry' = dict_del(_registry, last'.cls)
              /\ \A k \in receivers' : k[3] # last'.cls]_vars

\* C11 witness: unregister was called for a model that was not in the registry
\* while register_m2m had connected the m2m receiver for it, and the receiver
\* is still connected; another model is registered and connected.
C11_Witness ==
    /\ last.op = "unregister" /\ ~last.existed
    /\ last.cls \in Models
    /\ Connected("m2m_changed", last.cls)
    /\ \E m \in Models \ {last.cls} :
          contains(m) /\ \A sg \in dict_keys(_signals) : Connected(sg, m)
    /\ Cardinality(dict_keys(_signals)) = 4

\* C12 (as stated): a thread other than the constructing one that has assigned
\* no flag of its own reads the can_create, can_update and can_delete the
\* constructing thread read right after construction. Such a thread reads the
\* FlagLocals class attributes, which come from the settings and not from the
\* constructor's arguments.
C12_ConstructionHoldsEverywhere ==
    \A t \in Threads \ {"main"} :
        t \notin touched => read_flags(flags[t]) = constructed

\* C13 (as stated): while another thread has its signals disabled, with
\* disconnect False or True, and no call is under way, a save or delete of an instance of a registered
\* model by a thread with all logging enabled writes its row: a first save one
\* CREATE row, a later save with a changed field one UPDATE row, a delete one
\* DELETE row. disable_signals(disconnect=True) disconnects the receivers for
\* every thread, and then nothing is written.
C13_DisableConfinedToCaller ==
    (/\ last.op \in {"save", "delete"}
     /\ ~disable_auditlog
     /\ contains(last.cls)
     /\ AllEnabled(last.thread)
     /\ Quiet
     /\ \E a \in disabled : a # last.thread) =>
        last.wrote = (IF last.op = "delete" \/ ~last.existed \/ last.changed
                      THEN 1 ELSE 0)
====
